---- MODULE Spec2Model ----
(***************************************************************************)
(* Model of the Vault secret-configuration client of src/shared/           *)
(* vault-client.ts: the VaultClient accessor, the module-level singleton,  *)
(* and the VaultConfigManager (config cache, fallback, token renewal).     *)
(*                                                                         *)
(* One JavaScript event-loop turn is one action: an HTTP response arriving *)
(* runs every promise continuation that depends on it (getSecret's return, *)
(* Promise.all's resolution, the rest of getConfig) before any other       *)
(* response or timer is handled.                                           *)
(***************************************************************************)
EXTENDS Integers, Sequences, FiniteSets, TLC

(***************************************************************************)
(* Bounds of the model.                                                    *)
(***************************************************************************)
\* Date.now() at module load, in ms (any positive instant).
StartMs == 1000000
\* The clock advances at most this many steps of TickMs.
MaxTicks == 2

\* The granularity of the modelled clock: half of the cache window.
TickMs == 150 * 1000

(***************************************************************************)
(* Scalars: the values a secret key or an environment variable can hold    *)
(* (VaultSecret's string | number | boolean, or undefined when absent).    *)
(***************************************************************************)
Undef == [k |-> "undef", n |-> 0, s |-> ""]
Num(i) == [k |-> "num", n |-> i, s |-> ""]
Str(t) == [k |-> "str", n |-> 0, s |-> t]
NaN == [k |-> "nan", n |-> 0, s |-> ""]
Bool(b) == [k |-> "bool", n |-> IF b THEN 1 ELSE 0, s |-> ""]
\* JSON's null.
Null == [k |-> "null", n |-> 0, s |-> ""]

\* payload[key] of a JavaScript object: undefined when the key is absent.
Get(payload, key) == IF key \in DOMAIN payload THEN payload[key] ELSE Undef

\* Number(string) for the strings the model's secrets and environments hold:
\* the empty string is 0, a decimal string is its value, anything else NaN.
StrToNumber(t) ==
  CASE t = "" -> Num(0)
    [] t = "0" -> Num(0)
    [] t = "25" -> Num(25)
    [] t = "3600" -> Num(3600)
    [] t = "6380" -> Num(6380)
    [] OTHER -> NaN

\* Number(x): a number is itself, undefined is NaN, a string is parsed.
ToNumber(x) ==
  CASE x.k = "num" -> x
    [] x.k = "str" -> StrToNumber(x.s)
    [] OTHER -> NaN

\* Number(x) || d: NaN and 0 are falsy, so both yield the default.
NumberOr(x, d) ==
  LET v == ToNumber(x) IN IF v.k = "nan" \/ v.n = 0 THEN Num(d) ELSE v

\* x || d for an environment string: undefined and "" are falsy.
StringOr(x, d) == IF x.k = "undef" \/ (x.k = "str" /\ x.s = "") THEN Str(d) ELSE x

(***************************************************************************)
(* The secret server's key-value content.                                  *)
(***************************************************************************)
\* The four logical paths getConfig composes.
ConfigPaths == {"jwt/config", "auth-service/config", "auth-service/oauth", "redis/config"}

\* The order of the four reads in the array getConfig gives to Promise.all.
ReadOrder == <<"jwt/config", "auth-service/config", "auth-service/oauth", "redis/config">>

\* A path this client can write that is no constituent of the composed config.
OtherPath == "common/environment"

EmptyPayload == [x \in {} |-> Undef]

\* The versions of a path's payload that the model's server can hold and a
\* write can send: "full" is complete, "sparse" has keys that are absent,
\* non-numeric or zero (for jwt/config: the rotated secret).
Versions == {"full", "sparse"}

\* The payload that is version v of path p.
PayloadOf(p, v) ==
  CASE p = "jwt/config" ->
         IF v = "full" THEN [secret |-> Str("k1")] ELSE [secret |-> Str("k2")]
    [] p = "auth-service/config" ->
         IF v = "full"
           THEN [session_timeout |-> Str("3600"), max_login_attempts |-> Num(3),
                 lockout_duration |-> Num(600)]
           ELSE [session_timeout |-> Str("soon"), max_login_attempts |-> Num(0)]
    [] p = "auth-service/oauth" ->
         IF v = "full"
           THEN [google_client_id |-> Str("id"), google_client_secret |-> Str("gs"),
                 oauth_callback_url |-> Str("cb")]
           ELSE EmptyPayload
    [] p = "redis/config" ->
         IF v = "full"
           THEN [host |-> Str("cache"), port |-> Num(6380), password |-> Str("pw")]
           ELSE [host |-> Str("cache"), port |-> Str("tcp")]
    [] OTHER -> IF v = "full" THEN [env |-> Str("dev")] ELSE [env |-> Str("prod")]

\* The server contents the model starts from: every path complete, or every
\* path sparse.
InitialServers ==
  {[p \in ConfigPaths \cup {OtherPath} |-> v] : v \in Versions}

(***************************************************************************)
(* The process environment.                                                *)
(***************************************************************************)
\* Environments: no credential; an empty credential; a credential with some
\* overrides, one of them non-numeric, the other variables unset.
Envs ==
  { [x \in {} |-> Undef],
    [VAULT_TOKEN |-> Str("")],
    [VAULT_TOKEN |-> Str("tok"), JWT_SECRET |-> Str("envjwt"),
     SESSION_TIMEOUT |-> Str("25"), REDIS_PORT |-> Str("tcp")] }

(***************************************************************************)
(* VaultConfigManager: composition and fallback.                           *)
(***************************************************************************)
CACHE_DURATION == 5 * 60 * 1000

\* The object literal getConfig builds from the four payloads it read.
ComposeConfig(jwtConfig, authConfig, oauthConfig, redisConfig) ==
  [jwtSecret |-> Get(jwtConfig, "secret"),
   sessionTimeout |-> NumberOr(Get(authConfig, "session_timeout"), 1800),
   maxLoginAttempts |-> NumberOr(Get(authConfig, "max_login_attempts"), 5),
   lockoutDuration |-> NumberOr(Get(authConfig, "lockout_duration"), 900),
   googleClientId |-> Get(oauthConfig, "google_client_id"),
   googleClientSecret |-> Get(oauthConfig, "google_client_secret"),
   oauthCallbackUrl |-> Get(oauthConfig, "oauth_callback_url"),
   redisHost |-> Get(redisConfig, "host"),
   redisPort |-> NumberOr(Get(redisConfig, "port"), 6379),
   redisPassword |-> Get(redisConfig, "password")]

\* A fallback with another default for the session timeout.
getFallbackConfigOtherDefault(e) ==
  [jwtSecret |-> StringOr(Get(e, "JWT_SECRET"), "fallback-secret-change-me"),
   sessionTimeout |-> NumberOr(Get(e, "SESSION_TIMEOUT"), 3600),
   maxLoginAttempts |-> NumberOr(Get(e, "MAX_LOGIN_ATTEMPTS"), 5),
   lockoutDuration |-> NumberOr(Get(e, "LOCKOUT_DURATION"), 900),
   googleClientId |-> StringOr(Get(e, "GOOGLE_CLIENT_ID"), ""),
   googleClientSecret |-> StringOr(Get(e, "GOOGLE_CLIENT_SECRET"), ""),
   oauthCallbackUrl |-> StringOr(Get(e, "OAUTH_CALLBACK_URL"), ""),
   redisHost |-> StringOr(Get(e, "REDIS_HOST"), "redis"),
   redisPort |-> NumberOr(Get(e, "REDIS_PORT"), 6379),
   redisPassword |-> StringOr(Get(e, "REDIS_PASSWORD"), "")]

\* getFallbackConfig: a pure function of the process environment.
getFallbackConfig(e) ==
  [jwtSecret |-> StringOr(Get(e, "JWT_SECRET"), "fallback-secret-change-me"),
   sessionTimeout |-> NumberOr(Get(e, "SESSION_TIMEOUT"), 1800),
   maxLoginAttempts |-> NumberOr(Get(e, "MAX_LOGIN_ATTEMPTS"), 5),
   lockoutDuration |-> NumberOr(Get(e, "LOCKOUT_DURATION"), 900),
   googleClientId |-> StringOr(Get(e, "GOOGLE_CLIENT_ID"), ""),
   googleClientSecret |-> StringOr(Get(e, "GOOGLE_CLIENT_SECRET"), ""),
   oauthCallbackUrl |-> StringOr(Get(e, "OAUTH_CALLBACK_URL"), ""),
   redisHost |-> StringOr(Get(e, "REDIS_HOST"), "redis"),
   redisPort |-> NumberOr(Get(e, "REDIS_PORT"), 6379),
   redisPassword |-> StringOr(Get(e, "REDIS_PASSWORD"), "")]

(***************************************************************************)
(* State.                                                                  *)
(***************************************************************************)
VARIABLES
  env,             \* process.env
  phase,           \* module load of vault-integration: unloaded, constructed, loadFailed
  vaultInstance,   \* the module-level singleton: 0 is null, n the n-th VaultClient
  timers,          \* the setInterval timers started, in order
  now,             \* Date.now()
  server,          \* the secret server's content, path -> version of its payload
  config,          \* this.config: <<>> is null, <<c>> a stored AuthServiceConfig
  configCacheTime, \* this.configCacheTime
  configFrom,      \* for each path, the call whose read the stored config's part is
  call,            \* the getConfig call of each caller
  wr,              \* the write call (updateSecret or a direct setSecret)
  reg,             \* registerVaultConfig: none, preloading, completed, raised
  proc,            \* the host process: running, or crashed by an unhandled rejection
  batch,           \* the getSecrets call
  proj,            \* the getConfigValue call of each caller
  op,              \* the call of a VaultClient method, or of a health check
  logs,            \* the records that call wrote with console.error
  kv,              \* the key-value store behind secret/data, key -> <<>> or <<body>>
  made,            \* how many VaultClient objects have been constructed
  jwt,             \* the lightweight helper: its call and the secret it addresses
  setup            \* the run of setup-vault.sh from its readiness wait on

vars == <<env, phase, vaultInstance, timers, now, server, config, configCacheTime,
          configFrom, call, wr, reg, proc, batch, proj, op, logs, kv, made,
          jwt, setup>>

\* The fields and calls of the VaultConfigManager.
mgrVars == <<now, config, configCacheTime, configFrom, call, wr, reg, proj>>

\* The state of a VaultClient method call and of the store it talks to.
accVars == <<op, logs, kv>>

\* The lightweight helper and the setup script.
toolVars == <<jwt, setup>>

\* The callers of getConfig: registerVaultConfig's preload runs as Boot.
Boot == "boot"
Callers == {Boot, "svc"}

NoRead == [st |-> "none", val |-> "none", by |-> "none"]
NoReads == [p \in ConfigPaths |-> NoRead]
NoCalls == [p \in ConfigPaths |-> "none"]

\* A getConfig call: where it stands (idle, fetching, done), what it returned
\* (src: cache, live, fallback, raised; cfg), how many reads it issued, when a
\* call that fetched started, whether no invalidation followed a live return
\* (fresh), and whether all four reads returned a payload (allOk).
IdleCall ==
  [pc |-> "idle", src |-> "none", cfg |-> <<>>, issued |-> 0, startedAt |-> 0,
   fresh |-> FALSE, allOk |-> FALSE, reads |-> NoReads]

IdleWrite == [pc |-> "idle", kind |-> "none", path |-> OtherPath,
              data |-> "none", res |-> "none"]

\* A getSecrets call: the array it was given, the outcome of each read
\* (pending, ok, nopayload, error) and the results object.
IdleBatch == [pc |-> "idle", paths |-> <<>>, out |-> <<>>,
              results |-> [x \in {} |-> "none"]]

\* A getConfigValue call: the key asked for and the value returned.
IdleProj == [pc |-> "idle", key |-> "none", val |-> <<>>]

\* A path as a caller passes it: a number of leading slashes, then the rest.
NoPath == [lead |-> 0, rest |-> ""]

\* The paths given to getSecret, setSecret and deleteSecret have at most this
\* many leading slashes.
MaxLead == 2

\* path.replace(/^\//, ''): one leading slash, if any, is removed.
Normalize(path) == [path EXCEPT !.lead = IF @ > 0 THEN @ - 1 ELSE 0]

AccPaths == {[lead |-> n, rest |-> "jwt/config"] : n \in 0..MaxLead}
ListPaths == {[lead |-> n, rest |-> "jwt"] : n \in 0..1}

\* The url a method requests for a path: data for read and write, metadata
\* for delete and list, followed by the path after the replace.
RequestTarget(name, path) ==
  [area |-> IF name \in {"getSecret", "setSecret"} THEN "secret/data"
                                                   ELSE "secret/metadata",
   p |-> Normalize(path)]

\* The keys under secret/data the paths of the model reach.
AccKeys == {Normalize(path) : path \in AccPaths}

\* A call of a VaultClient method or of a health check: the method, its
\* arguments, the answer to its HTTP request, how it ended (returned, raised),
\* the kind of value returned (vt) and the value, and the call before it.
NoOp == [name |-> "none", path |-> NoPath, data |-> <<>>, res |-> "none"]
IdleOp == [pc |-> "idle", name |-> "none", path |-> NoPath, data |-> <<>>,
           http |-> "none", res |-> "none", vt |-> "none", val |-> <<>>,
           sent |-> 0, before |-> NoOp]

\* The timer the constructor starts: renewal every 50 minutes. The handle
\* setInterval returns is not stored.
ManagerTimer == [owner |-> "manager", intervalMs |-> 50 * 60 * 1000,
                 busy |-> FALSE, last |-> "none", handle |-> "discarded",
                 client |-> 0]

\* The state at module load, whatever the environment.
\* The lightweight helper at rest. stored is what the server holds under
\* secret/data/transcendence/jwt-secret: <<>> when nothing, else <<payload>>.
\* got is what vaultRequest returned to the call.
NoJwtCall == [name |-> "none", arg |-> Undef, val |-> Undef]
IdleJwt == [stored |-> <<>>, pc |-> "idle", name |-> "none", arg |-> Undef,
            http |-> "none", got |-> "none", res |-> "none", val |-> Undef,
            before |-> NoJwtCall]

\* The setup script before its readiness wait. readyAt is the time, in
\* seconds from the start of the wait, from which the health endpoint
\* answers successfully; clock is the time the script has slept.
IdleSetup == [pc |-> "notStarted", readyAt |-> 0, clock |-> 0, attempt |-> 0,
              polls |-> 0, status |-> 0, said |-> "none"]

InitManager ==
  /\ phase = "unloaded"
  /\ vaultInstance = 0
  /\ timers = <<>>
  /\ now = StartMs
  /\ server \in InitialServers
  /\ config = <<>>
  /\ configCacheTime = 0
  /\ configFrom = NoCalls
  /\ call = [c \in Callers |-> IdleCall]
  /\ wr = IdleWrite
  /\ reg = "none"
  /\ proc = "running"
  /\ batch = IdleBatch
  /\ proj = [c \in Callers |-> IdleProj]
  /\ op = IdleOp
  /\ logs = {}
  /\ kv = [key \in AccKeys |-> <<>>]
  /\ made = 0

InitRest == InitManager /\ jwt = IdleJwt /\ setup = IdleSetup

Init == env \in Envs /\ InitRest

(***************************************************************************)
(* Module load: export const vaultConfig = new VaultConfigManager().       *)
(***************************************************************************)
\* A credential test that only asks whether the variable is set.
HasTokenDefined(e) == Get(e, "VAULT_TOKEN").k = "str"

\* !vaultToken: undefined and "" are both falsy.
HasToken(e) == LET t == Get(e, "VAULT_TOKEN") IN t.k = "str" /\ t.s # ""

\* An initializeVault that keeps the instance it already has.
SingletonKeepsFirst(current, created) == IF current # 0 THEN current ELSE created

\* initializeVault: the singleton becomes the VaultClient just created.
SingletonAfterInit(current, created) == created

Construct ==
  /\ phase = "unloaded"
  /\ IF HasToken(env)
       THEN /\ phase' = "constructed"
            /\ made' = made + 1
            /\ vaultInstance' = SingletonAfterInit(vaultInstance, made + 1)
            /\ timers' = Append(timers, [ManagerTimer EXCEPT !.client = made + 1])
       ELSE /\ phase' = "loadFailed"
            /\ UNCHANGED <<vaultInstance, timers, made>>
  /\ UNCHANGED <<env, now, server, config, configCacheTime, configFrom, call, wr, reg>>
  /\ UNCHANGED <<proc, batch, proj>>
  /\ UNCHANGED <<accVars, toolVars>>

\* The timeout the constructor gives the VaultClient, in ms.
RequestTimeoutMs == 10000

\* Time passes, a step of TickMs at once. Every request settles within
\* RequestTimeoutMs < TickMs, so none is in flight across a step.
Tick ==
  /\ RequestTimeoutMs < TickMs
  /\ \A c \in Callers : call[c].pc # "fetching"
  /\ wr.pc # "inflight"
  /\ now < StartMs + MaxTicks * TickMs
  /\ now' = now + TickMs
  /\ UNCHANGED <<env, phase, vaultInstance, timers, server, config, configCacheTime,
                 configFrom, call, wr, reg>>
  /\ UNCHANGED <<proc, batch, proj>>
  /\ UNCHANGED <<accVars, made, toolVars>>

(***************************************************************************)
(* getConfig.                                                              *)
(***************************************************************************)
\* A cache test with the comparison turned around.
CacheValidInverted == config # <<>> /\ now - configCacheTime > CACHE_DURATION

\* A cache test that forgets the expiry window.
CacheValidNoExpiry == config # <<>>

\* The cache test of getConfig.
CacheValid == config # <<>> /\ now - configCacheTime < CACHE_DURATION

\* registerVaultConfig's try/catch around the preload: it completes either way.
RegisterCatch(src) == "completed"

\* A call that on a miss awaits its reads without having issued them.
GetConfigCallNoReads(c) ==
  IF CacheValid
    THEN call' = [call EXCEPT ![c] =
                 [pc |-> "done", src |-> "cache", cfg |-> config, issued |-> 0,
                  startedAt |-> 0, fresh |-> FALSE, allOk |-> FALSE,
                  reads |-> NoReads]]
    ELSE call' = [call EXCEPT ![c] =
                 [pc |-> "fetching", src |-> "none", cfg |-> <<>>, issued |-> 0,
                  startedAt |-> now, fresh |-> FALSE, allOk |-> FALSE,
                  reads |-> NoReads]]

\* A call that, finding another fetch in flight, issues no read of its own
\* and waits for that one.
GetConfigCallJoins(c) ==
  IF CacheValid
    THEN call' = [call EXCEPT ![c] =
                 [pc |-> "done", src |-> "cache", cfg |-> config, issued |-> 0,
                  startedAt |-> 0, fresh |-> FALSE, allOk |-> FALSE,
                  reads |-> NoReads]]
    ELSE call' = [call EXCEPT ![c] =
                 [pc |-> "fetching", src |-> "none", cfg |-> <<>>,
                  issued |-> IF \E d \in Callers \ {c} : call[d].pc = "fetching"
                               THEN 0 ELSE Cardinality(ConfigPaths),
                  startedAt |-> now, fresh |-> FALSE, allOk |-> FALSE,
                  reads |-> [p \in ConfigPaths |->
                               IF \E d \in Callers \ {c} : call[d].pc = "fetching"
                                 THEN [st |-> "ok", val |-> server[p], by |-> c]
                                 ELSE [st |-> "pending", val |-> "none", by |-> "none"]]]]

\* The synchronous part of a getConfig call: a hit returns the stored config,
\* a miss issues the four reads.
GetConfigCall(c) ==
  IF CacheValid
    THEN call' = [call EXCEPT ![c] =
                 [pc |-> "done", src |-> "cache", cfg |-> config, issued |-> 0,
                  startedAt |-> 0, fresh |-> FALSE, allOk |-> FALSE,
                  reads |-> NoReads]]
    ELSE call' = [call EXCEPT ![c] =
                 [pc |-> "fetching", src |-> "none", cfg |-> <<>>,
                  issued |-> Cardinality(ConfigPaths),
                  startedAt |-> now, fresh |-> FALSE, allOk |-> FALSE,
                  reads |-> [p \in ConfigPaths |->
                               [st |-> "pending", val |-> "none", by |-> "none"]]]]

GetConfig(c) ==
  /\ phase = "constructed"
  /\ call[c].pc # "fetching"
  /\ GetConfigCall(c)
  /\ UNCHANGED <<env, phase, vaultInstance, timers, now, server, config,
                 configCacheTime, configFrom, wr, reg>>
  /\ UNCHANGED <<proc, batch, proj>>
  /\ UNCHANGED <<accVars, made, toolVars>>

RegisterVaultConfig ==
  /\ phase = "constructed"
  /\ reg = "none"
  /\ call[Boot].pc # "fetching"
  /\ GetConfigCall(Boot)
  /\ reg' = IF call'[Boot].pc = "done" THEN RegisterCatch(call'[Boot].src)
            ELSE "preloading"
  /\ UNCHANGED <<env, phase, vaultInstance, timers, now, server, config,
                 configCacheTime, configFrom, wr>>
  /\ UNCHANGED <<proc, batch, proj>>
  /\ UNCHANGED <<accVars, made, toolVars>>

\* The fields of AuthServiceConfig.
ConfigKeys ==
  {"jwtSecret", "sessionTimeout", "maxLoginAttempts", "lockoutDuration",
   "googleClientId", "googleClientSecret", "oauthCallbackUrl", "redisHost",
   "redisPort", "redisPassword"}

\* A projection that returns one field whatever the key.
ProjectionFixedField(cfg, key) == <<cfg[1]["jwtSecret"]>>

\* config[key] of getConfigValue.
Projection(cfg, key) == <<cfg[1][key]>>

\* getConfigValue(key): await getConfig(), then project.
GetConfigValue(c, key) ==
  /\ phase = "constructed"
  /\ call[c].pc # "fetching"
  /\ GetConfigCall(c)
  /\ proj' = [proj EXCEPT ![c] =
                IF call'[c].pc = "done"
                  THEN [pc |-> "done", key |-> key, val |-> Projection(call'[c].cfg, key)]
                  ELSE [pc |-> "waiting", key |-> key, val |-> <<>>]]
  /\ UNCHANGED <<env, phase, vaultInstance, timers, now, server, config,
                 configCacheTime, configFrom, wr, reg>>
  /\ UNCHANGED <<proc, batch>>
  /\ UNCHANGED <<accVars, made, toolVars>>

\* Results kept in a place the calls share: a path another call has already
\* read is taken from that call.
FetchedShared(c, rd) ==
  [p \in ConfigPaths |->
     IF \E d \in Callers \ {c} : call[d].reads[p].st = "ok"
       THEN call[CHOOSE d \in Callers \ {c} : call[d].reads[p].st = "ok"].reads[p]
       ELSE rd[p]]

\* The four values Promise.all hands to the composition: the call's own reads.
Fetched(c, rd) == rd

\* A catch block that re-raises.
GetConfigCatchRethrow(c) ==
  [src |-> "raised", cfg |-> <<>>,
   config |-> config, configCacheTime |-> configCacheTime, configFrom |-> configFrom]

\* A catch block that stores the fallback it returns.
GetConfigCatchStores(c) ==
  [src |-> "fallback", cfg |-> <<getFallbackConfig(env)>>,
   config |-> <<getFallbackConfig(env)>>, configCacheTime |-> now,
   configFrom |-> configFrom]

\* A catch block that returns whatever is stored, stale or null.
GetConfigCatchStale(c) ==
  [src |-> "cache", cfg |-> config,
   config |-> config, configCacheTime |-> configCacheTime, configFrom |-> configFrom]

\* The catch block of getConfig: the fallback is returned, nothing is stored.
GetConfigCatch(c) ==
  [src |-> "fallback", cfg |-> <<getFallbackConfig(env)>>,
   config |-> config, configCacheTime |-> configCacheTime, configFrom |-> configFrom]

\* A try block that returns the composed config without storing it.
GetConfigStoreForgets(c, rd) ==
  LET val(p) == PayloadOf(p, rd[p].val)
      cfg == ComposeConfig(val("jwt/config"), val("auth-service/config"),
                           val("auth-service/oauth"), val("redis/config"))
  IN [src |-> "live", cfg |-> <<cfg>>,
      config |-> config, configCacheTime |-> configCacheTime, configFrom |-> configFrom]

\* A try block that stores the composed config and leaves the timestamp.
GetConfigStoreNoStamp(c, rd) ==
  LET got == Fetched(c, rd)
      val(p) == PayloadOf(p, got[p].val)
      cfg == ComposeConfig(val("jwt/config"), val("auth-service/config"),
                           val("auth-service/oauth"), val("redis/config"))
  IN [src |-> "live", cfg |-> <<cfg>>,
      config |-> <<cfg>>, configCacheTime |-> configCacheTime,
      configFrom |-> [p \in ConfigPaths |-> got[p].by]]

\* The try block of getConfig once all four reads returned: compose, store, stamp.
GetConfigStore(c, rd) ==
  LET got == Fetched(c, rd)
      val(p) == PayloadOf(p, got[p].val)
      cfg == ComposeConfig(val("jwt/config"), val("auth-service/config"),
                           val("auth-service/oauth"), val("redis/config"))
  IN [src |-> "live", cfg |-> <<cfg>>,
      config |-> <<cfg>>, configCacheTime |-> now,
      configFrom |-> [p \in ConfigPaths |-> got[p].by]]

\* The response to one of a fetching call's reads arrives.
\*   payload:   the envelope holds data.data.data
\*   nopayload: a 2xx envelope without it, getSecret returns undefined
\*   error:     a non-2xx answer or no answer, getSecret throws
\* Promise.all rejects at the first error; the reads still pending are left
\* to settle with nobody awaiting them.
\* The responses of one call are handled in the order of the array given to
\* Promise.all. The composition waits for all four, a call's result does not
\* tell which read failed, and jwt/config, the first of them, is the only path
\* written (WritePaths): every other arrival order leads to the same config,
\* call results and server content.
ReadSettle(c, p, outcome) ==
  /\ call[c].pc = "fetching"
  /\ call[c].reads[p].st = "pending"
  /\ \A i \in 1..Len(ReadOrder) :
        ReadOrder[i] = p => \A j \in 1..(i - 1) : call[c].reads[ReadOrder[j]].st # "pending"
  /\ LET rd == [call[c].reads EXCEPT ![p] =
                  IF outcome = "payload"
                    THEN [st |-> "ok", val |-> server[p], by |-> c]
                    ELSE [st |-> "nopayload", val |-> "none", by |-> c]]
         settled == \A q \in ConfigPaths : rd[q].st # "pending"
         allOk == outcome = "payload" /\ \A q \in ConfigPaths : rd[q].st = "ok"
         \* a property of undefined is read while building the object literal
         typeError == \E q \in ConfigPaths : rd[q].st = "nopayload"
         out == IF outcome = "error" \/ typeError
                  THEN GetConfigCatch(c) ELSE GetConfigStore(c, rd)
     IN IF outcome # "error" /\ ~settled
          THEN /\ call' = [call EXCEPT ![c].reads = rd]
               /\ UNCHANGED <<config, configCacheTime, configFrom, reg, proj>>
          ELSE /\ call' = [call EXCEPT ![c].pc = "done", ![c].src = out.src,
                                       ![c].cfg = out.cfg,
                                       ![c].allOk = allOk,
                                       ![c].fresh = out.src = "live",
                                       ![c].reads = NoReads]
               /\ config' = out.config
               /\ configCacheTime' = out.configCacheTime
               /\ configFrom' = out.configFrom
               /\ reg' = IF c = Boot /\ reg = "preloading"
                           THEN RegisterCatch(out.src) ELSE reg
               \* a getConfigValue call awaiting this getConfig goes on
               /\ proj' = IF proj[c].pc = "waiting"
                            THEN [proj EXCEPT ![c].pc = "done",
                                              ![c].val = Projection(out.cfg, proj[c].key)]
                            ELSE proj
  /\ UNCHANGED <<env, phase, vaultInstance, timers, now, server, wr>>
  /\ UNCHANGED <<proc, batch>>
  /\ UNCHANGED <<accVars, made, toolVars>>

(***************************************************************************)
(* Writes: VaultConfigManager.updateSecret, and setSecret called directly  *)
(* on the singleton VaultClient the manager reads through.                 *)
(***************************************************************************)
WriteStart(kind, p, data) ==
  /\ phase = "constructed"
  /\ wr.pc # "inflight"
  /\ wr' = [pc |-> "inflight", kind |-> kind, path |-> p, data |-> data, res |-> "none"]
  /\ UNCHANGED <<env, phase, vaultInstance, timers, now, server, config,
                 configCacheTime, configFrom, call, reg>>
  /\ UNCHANGED <<proc, batch, proj>>
  /\ UNCHANGED <<accVars, made, toolVars>>

\* What a successful write leaves in the manager's cache fields: updateSecret
\* clears them after its setSecret returned, VaultClient.setSecret knows no cache.
AfterWrite(kind) ==
  IF kind = "updateSecret"
    THEN [config |-> <<>>, configCacheTime |-> 0, configFrom |-> NoCalls,
          cleared |-> TRUE]
    ELSE [config |-> config, configCacheTime |-> configCacheTime,
          configFrom |-> configFrom, cleared |-> FALSE]

\* A catch block that clears the cache before it rethrows.
WriteCatchClears(kind) ==
  [res |-> "raised", config |-> <<>>, configCacheTime |-> 0, configFrom |-> NoCalls]

\* The catch block of updateSecret and of setSecret: log and rethrow; the
\* cache fields are not touched.
WriteCatch(kind) ==
  [res |-> "raised", config |-> config, configCacheTime |-> configCacheTime,
   configFrom |-> configFrom]

WriteSettle(outcome) ==
  /\ wr.pc = "inflight"
  /\ IF outcome = "ok"
       THEN /\ server' = [server EXCEPT ![wr.path] = wr.data]
            /\ wr' = [wr EXCEPT !.pc = "done", !.res = "ok", !.data = "none"]
            /\ config' = AfterWrite(wr.kind).config
            /\ configCacheTime' = AfterWrite(wr.kind).configCacheTime
            /\ configFrom' = AfterWrite(wr.kind).configFrom
            \* a call's result is fresh while no invalidation followed its return
            /\ call' = [c \in Callers |->
                          [call[c] EXCEPT !.fresh = @ /\ ~AfterWrite(wr.kind).cleared]]
       ELSE /\ wr' = [wr EXCEPT !.pc = "done", !.res = WriteCatch(wr.kind).res,
                                !.data = "none"]
            /\ config' = WriteCatch(wr.kind).config
            /\ configCacheTime' = WriteCatch(wr.kind).configCacheTime
            /\ configFrom' = WriteCatch(wr.kind).configFrom
            /\ UNCHANGED <<server, call>>
  /\ UNCHANGED <<env, phase, vaultInstance, timers, now, reg>>
  /\ UNCHANGED <<proc, batch, proj>>
  /\ UNCHANGED <<accVars, made, toolVars>>

\* The paths whose read the model lets answer 2xx without a payload.
NoPayloadPaths == {"auth-service/oauth"}

\* The answers the server can give to a read of p.
Outcomes(p) ==
  {"payload", "error"} \cup (IF p \in NoPayloadPaths THEN {"nopayload"} ELSE {})

\* The paths written in the model.
WritePaths == {"jwt/config"}

Next ==
  \/ Construct
  \/ Tick
  \/ \E c \in Callers : GetConfig(c)
  \/ RegisterVaultConfig
  \/ \E c \in Callers, p \in ConfigPaths : \E o \in Outcomes(p) : ReadSettle(c, p, o)
  \/ \E k \in {"updateSecret", "setSecret"}, p \in WritePaths :
       \E d \in Versions : WriteStart(k, p, d)
  \/ \E o \in {"ok", "error"} : WriteSettle(o)

Spec == Init /\ [][Next]_vars

(***************************************************************************)
(* Overlapping fetches: the clock advances by milliseconds while requests  *)
(* are in flight, so that the starts of two fetches can be told apart.     *)
(***************************************************************************)
\* The clock advances at most this many milliseconds.
MaxTocks == 2

\* A millisecond passes, whatever is in flight.
Tock ==
  /\ now < StartMs + MaxTocks
  /\ now' = now + 1
  /\ UNCHANGED <<env, phase, vaultInstance, timers, server, config, configCacheTime,
                 configFrom, call, wr, reg>>
  /\ UNCHANGED <<proc, batch, proj>>
  /\ UNCHANGED <<accVars, made, toolVars>>

NextRace ==
  \/ Construct
  \/ Tock
  \/ \E c \in Callers : GetConfig(c)
  \/ \E c \in Callers, p \in ConfigPaths : \E o \in Outcomes(p) : ReadSettle(c, p, o)
  \/ \E p \in WritePaths, d \in Versions : WriteStart("updateSecret", p, d)
  \/ \E o \in {"ok", "error"} : WriteSettle(o)

SpecRace == Init /\ [][NextRace]_vars

(***************************************************************************)
(* Termination of getConfig: every request of the client is bounded by its *)
(* timeout, so a read that is pending is eventually answered or fails.     *)
(***************************************************************************)
\* One of caller c's pending reads settles.
ReadsSettle(c) ==
  \E p \in ConfigPaths : \E o \in Outcomes(p) : ReadSettle(c, p, o)

NextLive ==
  \/ Construct
  \/ RegisterVaultConfig
  \/ \E c \in Callers : GetConfig(c)
  \/ \E c \in Callers : ReadsSettle(c)

SpecLive ==
  Init /\ [][NextLive]_vars /\ \A c \in Callers : WF_vars(ReadsSettle(c))

(***************************************************************************)
(* getConfigValue: the service reads single fields while the preload and   *)
(* the clock run.                                                          *)
(***************************************************************************)
NextValue ==
  \/ Construct
  \/ Tick
  \/ RegisterVaultConfig
  \/ \E key \in ConfigKeys : GetConfigValue("svc", key)
  \/ \E c \in Callers, p \in ConfigPaths : \E o \in Outcomes(p) : ReadSettle(c, p, o)

SpecValue == Init /\ [][NextValue]_vars

(***************************************************************************)
(* The fallback: getConfig against a server that answers no read, under    *)
(* every combination of overrides.                                         *)
(***************************************************************************)
\* What an override variable can hold: unset, empty, a number, not a number.
EnvValues == {Undef, Str(""), Str("25"), Str("tcp")}

\* Environments with a credential and any overrides of the numeric fields,
\* of the JWT secret and of the cache host.
FallbackEnvs ==
  {[VAULT_TOKEN |-> Str("tok"), SESSION_TIMEOUT |-> a, MAX_LOGIN_ATTEMPTS |-> b,
    LOCKOUT_DURATION |-> c, REDIS_PORT |-> d, JWT_SECRET |-> j, REDIS_HOST |-> j] :
     a \in EnvValues, b \in EnvValues, c \in EnvValues, d \in EnvValues,
     j \in {Undef, Str("envjwt")}}

InitFallback == env \in FallbackEnvs /\ InitRest

NextFallback ==
  \/ Construct
  \/ \E c \in Callers : GetConfig(c)
  \/ \E c \in Callers, p \in ConfigPaths : ReadSettle(c, p, "error")

SpecFallback == InitFallback /\ [][NextFallback]_vars

(***************************************************************************)
(* Token renewal: the manager's setupTokenRenewal and the module-level     *)
(* setupTokenAutoRenewal. Each starts a setInterval timer whose callback   *)
(* awaits renewToken inside a try/catch; no handle is kept.                *)
(***************************************************************************)
\* At most this many timers are started.
MaxTimers == 3

\* The intervalMinutes setupTokenAutoRenewal is called with: the default, and
\* a shorter one.
Intervals == {60, 30}

\* setupTokenAutoRenewal: getVaultClient() throws while no client is
\* initialized, and then no timer is started.
SetupTokenAutoRenewal(intervalMinutes) ==
  /\ proc = "running"
  /\ vaultInstance # 0
  /\ Len(timers) < MaxTimers
  /\ timers' = Append(timers, [owner |-> "auto",
                               intervalMs |-> intervalMinutes * 60 * 1000,
                               busy |-> FALSE, last |-> "none",
                               handle |-> "discarded", client |-> vaultInstance])
  /\ UNCHANGED <<env, phase, vaultInstance, server, mgrVars, proc, batch>>
  /\ UNCHANGED <<accVars, made, toolVars>>

\* Timer i fires and its callback calls renewToken, which posts renew-self.
\* The request settles within the client's timeout, far below any interval,
\* so the previous tick's request is never still in flight.
TimerFire(i) ==
  /\ proc = "running"
  /\ i \in 1..Len(timers)
  /\ RequestTimeoutMs < timers[i].intervalMs
  /\ ~timers[i].busy
  /\ timers' = [timers EXCEPT ![i].busy = TRUE]
  /\ UNCHANGED <<env, phase, vaultInstance, server, mgrVars, proc, batch>>
  /\ UNCHANGED <<accVars, made, toolVars>>

\* A callback without try/catch: the rejection of renewToken is unhandled.
TickUncaught(outcome) == IF outcome = "error" THEN "crashed" ELSE proc

\* The callback's try/catch: renewToken's error is logged and goes no further.
TickCatch(outcome) == proc

\* The answer to timer i's renew-self request arrives: renewToken returns, or
\* logs and throws 'Failed to renew token' into the callback.
RenewSettle(i, outcome) ==
  /\ proc = "running"
  /\ i \in 1..Len(timers)
  /\ timers[i].busy
  /\ timers' = [timers EXCEPT ![i].busy = FALSE,
                              ![i].last = IF outcome = "ok" THEN "ok" ELSE "failed"]
  /\ proc' = TickCatch(outcome)
  /\ UNCHANGED <<env, phase, vaultInstance, server, mgrVars, batch>>
  /\ UNCHANGED <<accVars, made, toolVars>>

NextRenewal ==
  \/ Construct
  \/ \E m \in Intervals : SetupTokenAutoRenewal(m)
  \/ \E i \in 1..MaxTimers : TimerFire(i)
  \/ \E i \in 1..MaxTimers, o \in {"ok", "error"} : RenewSettle(i, o)

SpecRenewal == Init /\ [][NextRenewal]_vars

(***************************************************************************)
(* VaultClient.getSecrets.                                                 *)
(***************************************************************************)
\* The longest array getSecrets is given.
MaxBatch == 3

\* The paths getSecrets is asked for: two the server holds, one it does not.
MissingPath == "missing/secret"
BatchPaths == {"jwt/config", "auth-service/oauth", MissingPath}

\* The arrays of at most n paths.
RECURSIVE PathArrays(_)
PathArrays(n) ==
  IF n = 0 THEN {<<>>}
  ELSE LET shorter == PathArrays(n - 1)
       IN shorter \cup {Append(a, p) : a \in {b \in shorter : Len(b) = n - 1},
                                       p \in BatchPaths}

\* The answers the server can give to a read of a path in a batch.
BatchOutcomes(p) ==
  IF p = MissingPath THEN {"error"}
  ELSE {"ok", "error"} \cup (IF p \in NoPayloadPaths THEN {"nopayload"} ELSE {})

\* results[p] = v on a JavaScript object: p is added or overwritten.
SetKey(results, p, v) ==
  [q \in DOMAIN results \cup {p} |-> IF q = p THEN v ELSE results[q]]

\* getSecrets(paths): one getSecret per element, all awaited by Promise.all.
GetSecrets(paths) ==
  /\ vaultInstance # 0
  /\ batch.pc # "waiting"
  /\ batch' = [pc |-> IF paths = <<>> THEN "done" ELSE "waiting",
               paths |-> paths,
               out |-> [i \in 1..Len(paths) |-> "pending"],
               results |-> [x \in {} |-> "none"]]
  /\ UNCHANGED <<env, phase, vaultInstance, timers, server, mgrVars, proc>>
  /\ UNCHANGED <<accVars, made, toolVars>>

\* A mapper whose catch block only warns: a failing path gets no entry.
BatchCatchOmits(results, p) == results

\* A catch block that empties every entry recorded so far.
BatchCatchClears(results, p) == [q \in DOMAIN results \cup {p} |-> "empty"]

\* The catch block of the mapper: warn, and record the empty payload.
BatchCatch(results, p) == SetKey(results, p, "empty")

\* The answer to read i of the batch arrives. getSecret returns the payload
\* (undefined when the envelope holds none) and the mapper stores it, or
\* getSecret throws and the mapper's catch block runs. Promise.all resolves
\* when the last mapper has finished.
BatchSettle(i, outcome) ==
  /\ batch.pc = "waiting"
  /\ i \in 1..Len(batch.paths)
  /\ batch.out[i] = "pending"
  /\ outcome \in BatchOutcomes(batch.paths[i])
  /\ LET p == batch.paths[i]
         out == [batch.out EXCEPT ![i] = outcome]
         res == CASE outcome = "ok" -> SetKey(batch.results, p, server[p])
                  [] outcome = "nopayload" -> SetKey(batch.results, p, "undefined")
                  [] OTHER -> BatchCatch(batch.results, p)
     IN batch' = [batch EXCEPT !.out = out, !.results = res,
                               !.pc = IF \A j \in 1..Len(out) : out[j] # "pending"
                                        THEN "done" ELSE "waiting"]
  /\ UNCHANGED <<env, phase, vaultInstance, timers, server, mgrVars, proc>>
  /\ UNCHANGED <<accVars, made, toolVars>>

NextBatch ==
  \/ Construct
  \/ \E a \in PathArrays(MaxBatch) : GetSecrets(a)
  \/ \E i \in 1..MaxBatch, o \in {"ok", "nopayload", "error"} : BatchSettle(i, o)

SpecBatch == Init /\ [][NextBatch]_vars

(***************************************************************************)
(* The VaultClient methods, one call at a time, against a key-value store  *)
(* that reflects writes and an HTTP layer that can fail any request.       *)
(***************************************************************************)
\* The data given to setSecret: strings, numbers and booleans, and one
\* payload with a number JSON cannot carry.
AccPayloads ==
  { [secret |-> Str("k1")],
    [ttl |-> Num(3600), enabled |-> Bool(TRUE)],
    [ttl |-> NaN] }

\* The body axios sends for { data }: JSON.stringify drops a key whose value
\* is undefined and writes null for a number that is not finite.
JsonEncode(data) ==
  [key \in {j \in DOMAIN data : data[j].k # "undef"} |->
     IF data[key].k = "nan" THEN Null ELSE data[key]]

\* The names under a directory of secret/metadata, in the server's order.
Children(store, dir) ==
  IF store[[lead |-> dir.lead, rest |-> "jwt/config"]] # <<>> THEN <<"config">> ELSE <<>>

\* The answers to a request that axios turns into a rejection: a status
\* outside 2xx, or no response at all.
Failed(answer) == answer \in {"http403", "http404", "http429", "http503", "network"}

\* Failures the HTTP layer can inflict on any authenticated request.
Faults == {"http403", "network"}

\* The answers a call's request can get. "ok" is the store's own answer when
\* it holds what is asked for; a read of a key it does not hold is answered
\* 404; a LIST of a directory without entries is answered 404 or by a 2xx
\* without keys. okNoPayload is a 2xx whose data.data holds no data,
\* okNoEnvelope a 2xx whose body holds no data.
Answers(o, store) ==
  CASE o.name = "getSecret" ->
         (IF store[Normalize(o.path)] # <<>> THEN {"ok"} ELSE {"http404"})
           \cup Faults \cup {"okNoPayload", "okNoEnvelope"}
    [] o.name = "listSecrets" ->
         (IF Children(store, Normalize(o.path)) # <<>>
            THEN {"ok"} ELSE {"okNoKeys", "http404"})
           \cup Faults \cup {"okNoEnvelope"}
    [] o.name \in {"healthCheck", "healthRoute"} ->
         {"ok", "http204", "http429", "http503", "network"}
    [] OTHER -> {"ok"} \cup Faults

\* The headers the constructor gives every request of the client.
ClientHeaders(e) ==
  [XVaultToken |-> Get(e, "VAULT_TOKEN").s, ContentType |-> "application/json"]

\* The error axios rejects with: it carries the status, if any, and the
\* request's config, url and headers included.
AxiosError(e, answer) ==
  [message |-> "Request failed", status |-> answer,
   url |-> "secret/path", headers |-> ClientHeaders(e)]

\* The TypeError of reading a property of undefined.
TypeError ==
  [message |-> "Cannot read properties of undefined", status |-> "none",
   url |-> "none", headers |-> [h \in {} |-> ""]]

\* The record the response interceptor writes: status, statusText, the
\* response body and the request's url.
InterceptorRecord(err) ==
  [by |-> "interceptor",
   shows |-> {err.status, "statusText", "response.data", err.url}]

\* The record a method's catch block writes: its message with the path, and
\* the error object, which console.error prints with its own properties.
CatchRecord(name, err) ==
  [by |-> "catch",
   shows |-> {name, "path", err.message, err.status, err.url}
               \cup {err.headers[h] : h \in DOMAIN err.headers}]

\* A catch block that logs and goes on.
AccessorCatchSwallows(name) == [res |-> "returned", vt |-> "undefined", val |-> <<>>]

\* The catch block of getSecret, setSecret, deleteSecret, listSecrets,
\* renewToken and getTokenInfo: log, then throw a new Error.
AccessorCatch(name) == [res |-> "raised", vt |-> "error", val |-> <<>>]

\* return response.data.data.keys: without the fallback to [].
ListKeysNoDefault(answer, names) ==
  IF answer = "ok" THEN [res |-> "returned", vt |-> "names", val |-> <<names>>]
  ELSE [res |-> "returned", vt |-> "undefined", val |-> <<>>]

\* return response.data.data.keys || [].
ListKeys(answer, names) ==
  [res |-> "returned", vt |-> "names",
   val |-> IF answer = "ok" THEN <<names>> ELSE << <<>> >>]

\* A health check that takes any answer for health.
ClientHealthCheckAnyAnswer(answer) == answer # "network"

\* VaultClient.healthCheck: response.status === 200, and false from the catch.
ClientHealthCheck(answer) == IF Failed(answer) THEN FALSE ELSE answer = "ok"

\* VaultConfigManager.healthCheck: the client's answer; its own catch block
\* returns false.
ManagerHealthCheck(answer) == ClientHealthCheck(answer)

\* The /health/vault handler: 200 when healthy, 503 otherwise.
HealthRouteReply(isHealthy) == IF isHealthy THEN 200 ELSE 503

\* How a call ends once its request is answered.
AccessorResult(o, answer, store) ==
  CASE o.name = "healthCheck" ->
         [res |-> "returned", vt |-> "bool", val |-> <<ClientHealthCheck(answer)>>]
    [] o.name = "healthRoute" ->
         [res |-> "returned", vt |-> "reply",
          val |-> <<HealthRouteReply(ManagerHealthCheck(answer))>>]
    [] Failed(answer) \/ answer = "okNoEnvelope" -> AccessorCatch(o.name)
    [] o.name = "getSecret" ->
         IF answer = "ok"
           THEN [res |-> "returned", vt |-> "payload", val |-> store[Normalize(o.path)]]
           ELSE [res |-> "returned", vt |-> "undefined", val |-> <<>>]
    [] o.name = "listSecrets" -> ListKeys(answer, Children(store, Normalize(o.path)))
    [] o.name = "getTokenInfo" -> [res |-> "returned", vt |-> "info", val |-> <<>>]
    [] OTHER -> [res |-> "returned", vt |-> "void", val |-> <<>>]

\* A setSecret that posts to the path as given, leading slash included.
StoreAfterRawPath(o, answer, store) ==
  CASE answer = "ok" /\ o.name = "setSecret" ->
         [store EXCEPT ![o.path] = <<JsonEncode(o.data[1])>>]
    [] answer = "ok" /\ o.name = "deleteSecret" ->
         [store EXCEPT ![Normalize(o.path)] = <<>>]
    [] OTHER -> store

\* What the call's request leaves in the store.
StoreAfter(o, answer, store) ==
  CASE answer = "ok" /\ o.name = "setSecret" ->
         [store EXCEPT ![Normalize(o.path)] = <<JsonEncode(o.data[1])>>]
    [] answer = "ok" /\ o.name = "deleteSecret" ->
         [store EXCEPT ![Normalize(o.path)] = <<>>]
    [] OTHER -> store

\* The records the call writes: the methods that go through this.client log
\* in the interceptor and in their catch block, the health check logs nothing.
LogsOf(o, answer, e) ==
  CASE o.name \in {"healthCheck", "healthRoute"} -> {}
    [] Failed(answer) ->
         {InterceptorRecord(AxiosError(e, answer)), CatchRecord(o.name, AxiosError(e, answer))}
    [] answer = "okNoEnvelope" -> {CatchRecord(o.name, TypeError)}
    [] OTHER -> {}

\* A method is called: getVaultClient() hands out the client once one is
\* initialized. One call is made at a time.
AccessorCall(name, path, data) ==
  /\ vaultInstance # 0
  /\ op.pc # "inflight"
  /\ op' = [pc |-> "inflight", name |-> name, path |-> path, data |-> data,
            http |-> "none", res |-> "none", vt |-> "none", val |-> <<>>,
            sent |-> 1,
            before |-> [name |-> op.name, path |-> op.path, data |-> op.data,
                        res |-> op.res]]
  /\ logs' = {}
  /\ UNCHANGED <<env, phase, vaultInstance, timers, server, mgrVars, proc, batch, kv>>
  /\ UNCHANGED <<made, toolVars>>

\* A method that sends its request once more after a failure.
ShouldRetryOnce(o, answer) == Failed(answer) /\ o.sent < 2

\* Whether the method sends its request again after this answer: no method
\* does, each awaits one request and its catch block throws.
ShouldRetry(o, answer) == FALSE

\* The answer to the call's request arrives and the call ends.
AccessorSettle(answer) ==
  /\ op.pc = "inflight"
  /\ answer \in Answers(op, kv)
  /\ IF ShouldRetry(op, answer)
       THEN op' = [op EXCEPT !.sent = @ + 1]
       ELSE LET out == AccessorResult(op, answer, kv)
            IN op' = [op EXCEPT !.pc = "done", !.http = answer, !.res = out.res,
                                !.vt = out.vt, !.val = out.val]
  /\ kv' = StoreAfter(op, answer, kv)
  /\ logs' = LogsOf(op, answer, env)
  /\ UNCHANGED <<env, phase, vaultInstance, timers, server, mgrVars, proc, batch>>
  /\ UNCHANGED <<made, toolVars>>

AllAnswers ==
  {"ok", "okNoPayload", "okNoEnvelope", "okNoKeys", "http204", "http403", "http404",
   "http429", "http503", "network"}

NextAccessor ==
  \/ Construct
  \/ \E name \in {"getSecret", "deleteSecret"}, path \in AccPaths :
       AccessorCall(name, path, <<>>)
  \/ \E path \in AccPaths, data \in AccPayloads : AccessorCall("setSecret", path, <<data>>)
  \/ \E path \in ListPaths : AccessorCall("listSecrets", path, <<>>)
  \/ \E name \in {"renewToken", "getTokenInfo", "healthCheck", "healthRoute"} :
       AccessorCall(name, NoPath, <<>>)
  \/ \E answer \in AllAnswers : AccessorSettle(answer)

SpecAccessor == Init /\ [][NextAccessor]_vars

(***************************************************************************)
(* The module-level singleton: initializeVault and getVaultClient.         *)
(***************************************************************************)
\* The application calls initializeVault at most this many times.
MaxClients == 3

\* initializeVault(config), called by the application: a VaultClient is
\* created, becomes the singleton and is returned.
InitializeVault ==
  /\ made < MaxClients
  /\ op.pc # "inflight"
  /\ made' = made + 1
  /\ vaultInstance' = SingletonAfterInit(vaultInstance, made + 1)
  /\ op' = [IdleOp EXCEPT !.pc = "done", !.name = "initializeVault",
                          !.res = "returned", !.vt = "client",
                          !.val = <<vaultInstance'>>,
                          !.before = [name |-> op.name, path |-> op.path,
                                      data |-> op.data, res |-> op.res]]
  /\ UNCHANGED <<env, phase, timers, server, mgrVars, proc, batch, logs, kv>>
  /\ UNCHANGED toolVars

\* getVaultClient(): throws while the singleton is null, returns it otherwise.
GetVaultClient ==
  /\ op.pc # "inflight"
  /\ op' = [IdleOp EXCEPT !.pc = "done", !.name = "getVaultClient",
                          !.res = IF vaultInstance = 0 THEN "raised" ELSE "returned",
                          !.vt = IF vaultInstance = 0 THEN "error" ELSE "client",
                          !.val = IF vaultInstance = 0 THEN <<>> ELSE <<vaultInstance>>,
                          !.before = [name |-> op.name, path |-> op.path,
                                      data |-> op.data, res |-> op.res]]
  /\ UNCHANGED <<env, phase, vaultInstance, timers, server, mgrVars, proc, batch,
                 logs, kv, made, toolVars>>

NextSingleton ==
  \/ Construct
  \/ InitializeVault
  \/ GetVaultClient

SpecSingleton == Init /\ [][NextSingleton]_vars

(***************************************************************************)
(* The lightweight helper: vaultRequest, getJWTSecret, saveJWTSecret.      *)
(***************************************************************************)
\* The helper's environments: JWT_SECRET unset, empty or set.
HelperEnvs ==
  { [x \in {} |-> Undef], [JWT_SECRET |-> Str("")], [JWT_SECRET |-> Str("envjwt")] }

\* What the server can hold under the helper's path before the helper runs:
\* nothing, or a payload written by any client.
HelperPayloads ==
  { [value |-> Str("k1")], [value |-> Str("")], [value |-> Num(42)],
    [other |-> Str("x")] }

\* The strings saveJWTSecret is given.
Secrets == {"", "k1", "k2"}

InitHelper ==
  /\ env \in HelperEnvs
  /\ InitManager
  /\ jwt \in {IdleJwt} \cup {[IdleJwt EXCEPT !.stored = <<d>>] : d \in HelperPayloads}
  /\ setup = IdleSetup

\* A JavaScript value in a condition: undefined, null, NaN, 0, "" and false
\* are falsy.
Truthy(x) ==
  CASE x.k = "str" -> x.s # ""
    [] x.k = "num" -> x.n # 0
    [] x.k = "bool" -> x.n = 1
    [] OTHER -> FALSE

\* The answers fetch can get. A read of a secret the server holds is answered
\* "ok" with its envelope, of one it does not hold 404; a write is answered
\* "ok". okEmpty is a 2xx with an empty body, okNotJson a 2xx whose body is
\* not JSON; the others are statuses outside 2xx and a failure to connect.
HelperAnswers(j) ==
  (IF j.name = "getJWTSecret" /\ j.stored = <<>> THEN {"http404"} ELSE {"ok"})
    \cup {"okEmpty", "okNotJson", "http403", "http503", "network"}

\* vaultRequest: what it returns for an answer. A response that is not ok
\* gives null; an empty body gives {}; a body is parsed, and a failure of
\* fetch or of JSON.parse is caught and gives null. payload is data.data of
\* the parsed body, <<>> when the body has none.
VaultRequest(method, answer, stored) ==
  CASE answer = "ok" /\ method = "GET" -> [kind |-> "json", payload |-> stored]
    [] answer = "ok" -> [kind |-> "json", payload |-> <<>>]
    [] answer = "okEmpty" -> [kind |-> "json", payload |-> <<>>]
    [] OTHER -> [kind |-> "null", payload |-> <<>>]

\* getJWTSecret after its vaultRequest: response?.data?.data?.value when it
\* is truthy, else process.env.JWT_SECRET || 'default_secret_key'. A
\* vaultRequest that raised would be caught and lead to the same fallback.
JwtSecretFrom(r, e) ==
  LET v == IF r.payload # <<>> THEN Get(r.payload[1], "value") ELSE Undef
  IN IF Truthy(v) THEN v ELSE StringOr(Get(e, "JWT_SECRET"), "default_secret_key")

\* saveJWTSecret after its vaultRequest: true when the response is not null.
SaveResult(r) == Bool(r.kind = "json")

\* getJWTSecret() or saveJWTSecret(secret) is called and sends its request.
\* One call is made at a time.
HelperCall(name, arg) ==
  /\ jwt.pc # "inflight"
  /\ jwt' = [jwt EXCEPT !.pc = "inflight", !.name = name, !.arg = arg,
                        !.http = "none", !.got = "none", !.res = "none",
                        !.val = Undef,
                        !.before = [name |-> jwt.name, arg |-> jwt.arg,
                                    val |-> jwt.val]]
  /\ UNCHANGED <<env, phase, vaultInstance, timers, server, mgrVars, proc, batch>>
  /\ UNCHANGED <<accVars, made, setup>>

\* The answer arrives and the call ends. A 2xx answer of the server to the
\* POST, with or without a body, means it has stored { value: secret }.
HelperSettle(answer) ==
  /\ jwt.pc = "inflight"
  /\ answer \in HelperAnswers(jwt)
  /\ LET method == IF jwt.name = "saveJWTSecret" THEN "POST" ELSE "GET"
         r == VaultRequest(method, answer, jwt.stored)
     IN jwt' = [jwt EXCEPT
                  !.pc = "done", !.http = answer, !.got = r.kind,
                  !.res = "returned",
                  !.val = IF method = "POST" THEN SaveResult(r) ELSE JwtSecretFrom(r, env),
                  !.stored = IF method = "POST" /\ answer \in {"ok", "okEmpty"}
                               THEN <<JsonEncode([value |-> jwt.arg])>> ELSE @]
  /\ UNCHANGED <<env, phase, vaultInstance, timers, server, mgrVars, proc, batch>>
  /\ UNCHANGED <<accVars, made, setup>>

NextHelper ==
  \/ HelperCall("getJWTSecret", Undef)
  \/ \E secret \in Secrets : HelperCall("saveJWTSecret", Str(secret))
  \/ \E answer \in {"ok", "okEmpty", "okNotJson", "http403", "http404", "http503",
                    "network"} : HelperSettle(answer)

SpecHelper == InitHelper /\ [][NextHelper]_vars

(***************************************************************************)
(* setup-vault.sh: the wait for Vault to be ready. The script runs under   *)
(* set -e: a simple command that ends with a status other than 0, outside  *)
(* the condition of an if or a while, ends the script with that status.    *)
(***************************************************************************)
\* The health endpoint starts answering at most this many seconds after the
\* wait begins.
MaxReadySec == 62

max_attempts == 30

\* The seconds one sleep of the loop lasts.
SleepSec == 2

InitSetup ==
  /\ env \in Envs
  /\ InitManager
  /\ jwt = IdleJwt
  /\ setup \in {[IdleSetup EXCEPT !.readyAt = r] : r \in 0..MaxReadySec}

\* The exit status of the arithmetic command ((expr)): 1 when the value of
\* the expression is 0, else 0.
ArithStatus(value) == IF value = 0 THEN 1 ELSE 0

SetupStep(next) ==
  /\ setup' = next
  /\ UNCHANGED <<env, phase, vaultInstance, timers, server, mgrVars, proc, batch>>
  /\ UNCHANGED <<accVars, made, jwt>>

\* max_attempts=30; attempt=0
WaitBegin ==
  /\ setup.pc = "notStarted"
  /\ SetupStep([setup EXCEPT !.pc = "test", !.attempt = 0])

\* while [ $attempt -lt $max_attempts ]
LoopTest ==
  /\ setup.pc = "test"
  /\ SetupStep([setup EXCEPT !.pc = IF setup.attempt < max_attempts
                                      THEN "poll" ELSE "afterLoop"])

\* if curl -s -f .../v1/sys/health: on success say so and break, else go on
\* to the sleep. The command is the condition of an if: its status does not
\* end the script.
Poll ==
  /\ setup.pc = "poll"
  /\ SetupStep(IF setup.clock >= setup.readyAt
                 THEN [setup EXCEPT !.pc = "afterLoop", !.polls = @ + 1,
                                    !.said = "Vault is ready!"]
                 ELSE [setup EXCEPT !.pc = "sleep", !.polls = @ + 1])

\* sleep 2
Sleep ==
  /\ setup.pc = "sleep"
  /\ SetupStep([setup EXCEPT !.pc = "increment", !.clock = @ + SleepSec])

\* ((attempt++)): the value of the expression is attempt before the
\* increment, so the command's status is 1 when attempt was 0 and the script
\* ends there; otherwise the echo follows and the loop goes round.
Increment ==
  /\ setup.pc = "increment"
  /\ SetupStep(IF ArithStatus(setup.attempt) # 0
                 THEN [setup EXCEPT !.pc = "exited", !.attempt = @ + 1,
                                    !.status = ArithStatus(setup.attempt)]
                 ELSE [setup EXCEPT !.pc = "test", !.attempt = @ + 1,
                                    !.said = "waiting for Vault..."])

\* if [ $attempt -eq $max_attempts ]: message and exit 1, else go on to
\* initialize Vault.
AfterLoop ==
  /\ setup.pc = "afterLoop"
  /\ SetupStep(IF setup.attempt = max_attempts
                 THEN [setup EXCEPT !.pc = "exited", !.status = 1,
                         !.said = "Vault failed to start within expected time"]
                 ELSE [setup EXCEPT !.pc = "initializing"])

NextSetup ==
  \/ WaitBegin
  \/ LoopTest
  \/ Poll
  \/ Sleep
  \/ Increment
  \/ AfterLoop

SpecSetup == InitSetup /\ [][NextSetup]_vars

(***************************************************************************)
(* Properties of the config manager.                                       *)
(***************************************************************************)
\* Caller c starts a getConfig call in this step.
Started(c) == call[c].pc # "fetching" /\ call'[c] # call[c] /\ wr' = wr

\* Caller c's getConfig call returns in this step after a fetch.
Returns(c) == call[c].pc = "fetching" /\ call'[c].pc = "done"

\* The write in flight succeeds in this step.
WriteSucceeds(kind) ==
  wr.pc = "inflight" /\ wr.kind = kind /\ wr'.pc = "done" /\ wr'.res = "ok"

\* C1: getConfig never raises to its caller: every call that has returned
\* returned a config, and a call whose fetch did not get four payloads (a read
\* failed) returned the fallback object derived from the environment.
C1_GetConfigNeverRaises ==
  \A c \in Callers :
    call[c].pc = "done" =>
      /\ call[c].src \in {"cache", "live", "fallback"}
      /\ Len(call[c].cfg) = 1
      /\ (call[c].src # "cache" /\ ~call[c].allOk) =>
            (call[c].src = "fallback" /\ call[c].cfg = <<getFallbackConfig(env)>>)

\* C1 witness: a call whose fetch failed has returned the fallback.
C1_Witness ==
  \E c \in Callers :
    call[c].pc = "done" /\ call[c].src = "fallback" /\ call[c].issued = 4

\* C2: the fallback is never stored: the step in which a call returns the
\* fallback changes neither the stored config nor its timestamp, so a cache
\* that was not valid before that step is not valid after it, and what is
\* stored always comes from reads.
C2_FallbackNotCached ==
  [][\A c \in Callers :
       (Returns(c) /\ call'[c].src = "fallback") =>
          /\ config' = config
          /\ configCacheTime' = configCacheTime
          /\ (config' # <<>> => \A p \in ConfigPaths : configFrom'[p] \in Callers)
          /\ (~(config # <<>> /\ now - configCacheTime < CACHE_DURATION) =>
                ~(config' # <<>> /\ now' - configCacheTime' < CACHE_DURATION))]_vars

\* C2 witness: a call has returned the fallback while an expired entry, which
\* is not the fallback, is still what is stored.
C2_Witness ==
  \E c \in Callers :
    /\ call[c].pc = "done" /\ call[c].src = "fallback"
    /\ config # <<>> /\ config # call[c].cfg
    /\ now - configCacheTime >= CACHE_DURATION

\* C3 as stated: whenever a call that fetched has returned, and a second call
\* starts within 5 minutes of the first with no write in between, the second
\* call is a cache hit and issues no read.
C3_SecondCallAlwaysHits ==
  [][\A c1, c2 \in Callers :
       ( /\ call[c1].pc = "done" /\ call[c1].src \in {"live", "fallback"}
         /\ now - call[c1].startedAt < CACHE_DURATION
         /\ wr.pc = "idle"
         /\ Started(c2) ) =>
          (call'[c2].pc = "done" /\ call'[c2].src = "cache" /\ call'[c2].issued = 0)]_vars

\* C3 amended: when the first call returned a live configuration, a second call
\* that starts after it returned, within 5 minutes of its start and with no
\* successful updateSecret in between, is a cache hit: it returns the stored
\* config and issues no read.
C3_SecondCallHitsAfterLive ==
  [][\A c1, c2 \in Callers :
       ( /\ call[c1].pc = "done" /\ call[c1].src = "live" /\ call[c1].fresh
         /\ now - call[c1].startedAt < CACHE_DURATION
         /\ Started(c2) ) =>
          /\ call'[c2].pc = "done" /\ call'[c2].src = "cache"
          /\ call'[c2].issued = 0
          /\ call'[c2].cfg = config
          /\ \A p \in ConfigPaths : call'[c2].reads[p].st = "none"]_vars

\* C3 witness: one caller returned live, the other then got a cache hit.
C3_Witness ==
  \E c1, c2 \in Callers :
    /\ c1 # c2
    /\ call[c1].pc = "done" /\ call[c1].src = "live" /\ call[c1].fresh
    /\ call[c2].pc = "done" /\ call[c2].src = "cache" /\ call[c2].issued = 0
    /\ call[c2].cfg = call[c1].cfg

\* C4: a successful updateSecret clears the stored config and its timestamp,
\* and a call that starts while the entry is cleared or at least 5 minutes old
\* issues the four reads and does not return the stored entry.
C4_RefetchAfterInvalidationOrExpiry ==
  [][/\ WriteSucceeds("updateSecret") => (config' = <<>> /\ configCacheTime' = 0)
     /\ \A c \in Callers :
          (Started(c) /\ (config = <<>> \/ now - configCacheTime >= CACHE_DURATION)) =>
             /\ call'[c].pc = "fetching"
             /\ call'[c].issued = 4
             /\ call'[c].src # "cache"
             /\ \A p \in ConfigPaths : call'[c].reads[p].st = "pending"]_vars

\* C4 witness: after a successful updateSecret a config was fetched and stored
\* again, it is now 5 minutes old, and a call is fetching.
C4_Witness ==
  /\ wr.pc = "done" /\ wr.kind = "updateSecret" /\ wr.res = "ok"
  /\ config # <<>> /\ now - configCacheTime >= CACHE_DURATION
  /\ \E c \in Callers : call[c].pc = "fetching"

\* C5: at most one config is stored, all four of its parts were read by one
\* and the same call, and a call that stored had all four reads return a
\* payload.
C5_AllOrNothing ==
  /\ Len(config) <= 1
  /\ config # <<>> => \E c \in Callers : \A p \in ConfigPaths : configFrom[p] = c
  /\ config = <<>> => configFrom = NoCalls
  /\ \A c \in Callers : (call[c].pc = "done" /\ call[c].src = "live") => call[c].allOk

\* C5 witness: a config is stored while the other caller's fetch, started
\* before that config was stored, has some of its reads back.
C5_Witness ==
  \E c, d \in Callers :
    /\ c # d
    /\ config # <<>> /\ configFrom["jwt/config"] = c
    /\ call[d].pc = "fetching" /\ call[d].reads["jwt/config"].st = "ok"
    /\ call[d].reads["jwt/config"].val # server["jwt/config"]

\* C6: after a fallback the next call fetches again unless a valid entry has
\* been stored meanwhile, and a fetch whose four reads all return a payload
\* returns the live config and stores it with the current time.
C6_RecoveryFromFallback ==
  [][\A c \in Callers :
       /\ ( /\ Started(c)
            /\ \E d \in Callers : call[d].pc = "done" /\ call[d].src = "fallback"
            /\ ~(config # <<>> /\ now - configCacheTime < CACHE_DURATION) ) =>
             (call'[c].pc = "fetching" /\ call'[c].issued = 4)
       /\ (Returns(c) /\ call'[c].allOk) =>
             /\ call'[c].src = "live"
             /\ config' = call'[c].cfg
             /\ configCacheTime' = now
             /\ config' # <<>> /\ now' - configCacheTime' < CACHE_DURATION]_vars

\* C6 witness: one call returned the fallback, a call started later returned
\* the live config, which is what is stored.
C6_Witness ==
  \E c, d \in Callers :
    /\ call[d].pc = "done" /\ call[d].src = "fallback"
    /\ call[c].pc = "done" /\ call[c].src = "live"
    /\ call[c].startedAt > call[d].startedAt
    /\ config = call[c].cfg

\* C7: every successful write of a constituent secret through this client,
\* by updateSecret or by setSecret on the manager's VaultClient, clears the
\* stored config and its timestamp.
C7_EveryWriteInvalidates ==
  [][\A k \in {"updateSecret", "setSecret"} :
       (WriteSucceeds(k) /\ wr.path \in ConfigPaths) =>
          (config' = <<>> /\ configCacheTime' = 0)]_vars

\* C10: registerVaultConfig never raises, it completes as soon as its preload
\* ends, and once it has completed every call whose fetch failed returns the
\* fallback object derived from the environment.
C10_StartsWithoutServer ==
  [][/\ reg' # "raised"
     /\ (reg = "preloading" /\ Returns(Boot)) => reg' = "completed"
     /\ \A c \in Callers :
          (Returns(c) /\ ~call'[c].allOk /\ reg' = "completed") =>
             (call'[c].src = "fallback" /\ call'[c].cfg = <<getFallbackConfig(env)>>)]_vars

\* C10 witness: the preload failed, registerVaultConfig completed, nothing is
\* stored, and the service's own call got the fallback.
C10_Witness ==
  /\ reg = "completed"
  /\ config = <<>>
  /\ \A c \in Callers :
       call[c].pc = "done" /\ call[c].src = "fallback" /\ call[c].issued = 4

(***************************************************************************)
(* Properties of getSecrets.                                               *)
(***************************************************************************)
\* What read i of the batch leaves under its path: the payload served, the
\* undefined of an envelope without payload, or the empty payload {}.
BatchValue(i) ==
  CASE batch.out[i] = "ok" -> server[batch.paths[i]]
    [] batch.out[i] = "nopayload" -> "undefined"
    [] OTHER -> "empty"

\* C8: getSecrets never raises: it returns once every read has settled,
\* whatever the outcomes, and its result has an entry for exactly the requested
\* paths: under each path what a read of that path left, the payload when it
\* succeeded and {} when it failed.
C8_GetSecretsTotal ==
  /\ batch.pc = "waiting" <=> \E i \in 1..Len(batch.paths) : batch.out[i] = "pending"
  /\ \A i \in 1..Len(batch.paths) :
       batch.out[i] # "pending" => batch.paths[i] \in DOMAIN batch.results
  /\ batch.pc = "done" =>
       /\ DOMAIN batch.results = {batch.paths[i] : i \in 1..Len(batch.paths)}
       /\ \A p \in DOMAIN batch.results :
            batch.results[p] \in
              {BatchValue(i) : i \in {j \in 1..Len(batch.paths) : batch.paths[j] = p}}

\* C8 witness: getSecrets returned with the payload of a path whose read
\* succeeded and {} for another path whose read failed.
C8_Witness ==
  /\ batch.pc = "done"
  /\ \E i, j \in 1..Len(batch.paths) :
       /\ batch.paths[i] # batch.paths[j]
       /\ batch.out[i] = "ok" /\ batch.results[batch.paths[i]] \in Versions
       /\ batch.out[j] = "error" /\ batch.results[batch.paths[j]] = "empty"

(***************************************************************************)
(* Properties of token renewal.                                            *)
(***************************************************************************)
\* C9: a renewal failure never ends the process or the loop: the process is
\* running in every state, and a timer whose last renewal failed can fire
\* again.
C9_RenewalFailureContained ==
  /\ proc = "running"
  /\ \A i \in 1..Len(timers) :
       (timers[i].last = "failed" /\ ~timers[i].busy) => ENABLED TimerFire(i)

\* C9 witness: the manager's timer and a setupTokenAutoRenewal timer have both
\* fired again after a failed renewal.
C9_Witness ==
  \E i, j \in 1..Len(timers) :
    /\ timers[i].owner = "manager" /\ timers[i].last = "failed" /\ timers[i].busy
    /\ timers[j].owner = "auto" /\ timers[j].last = "failed" /\ timers[j].busy

(***************************************************************************)
(* Properties of construction.                                             *)
(***************************************************************************)
\* C17: constructing the manager while VAULT_TOKEN is unset or empty fails:
\* the module never gets constructed, no client instance is initialized and
\* no renewal timer is started.
C17_NoCredentialNoClient ==
  (Get(env, "VAULT_TOKEN").k = "undef" \/ Get(env, "VAULT_TOKEN") = Str("")) =>
     /\ phase \in {"unloaded", "loadFailed"}
     /\ vaultInstance = 0
     /\ timers = <<>>

\* C17 witness: construction has failed on an empty credential.
C17_Witness ==
  /\ phase = "loadFailed"
  /\ Get(env, "VAULT_TOKEN") = Str("")
  /\ vaultInstance = 0 /\ timers = <<>>

\* C18: every renewal timer the client has started can be cancelled: its
\* handle is kept where an operation can clear it.
C18_TimersCancellable ==
  \A i \in 1..Len(timers) : timers[i].handle = "kept"

(***************************************************************************)
(* Properties of the VaultClient methods.                                  *)
(***************************************************************************)
\* The methods whose request goes through the client's interceptor.
AccessorNames ==
  {"getSecret", "setSecret", "deleteSecret", "listSecrets", "renewToken", "getTokenInfo"}

\* C11: whenever the HTTP request of getSecret, setSecret, deleteSecret,
\* listSecrets, renewToken or getTokenInfo fails, the call ends by raising,
\* with the failure logged by the interceptor and by the method; it never
\* returns a result.
C11_FailuresReRaised ==
  (op.pc = "done" /\ op.name \in AccessorNames /\ Failed(op.http)) =>
     /\ op.res = "raised"
     /\ op.vt = "error"
     /\ \E r \in logs : r.by = "interceptor"
     /\ \E r \in logs : r.by = "catch"

\* C11 witness: two calls in a row, of different methods, have raised on a
\* failed request.
C11_Witness ==
  /\ op.pc = "done" /\ op.name = "listSecrets" /\ op.http = "network"
  /\ op.res = "raised"
  /\ op.before.name = "setSecret" /\ op.before.res = "raised"

\* C12: getSecret fails whenever the envelope it unwraps holds no payload; it
\* never returns a missing payload as a result.
C12_NoPayloadFails ==
  (op.pc = "done" /\ op.name = "getSecret"
     /\ op.http \in {"okNoPayload", "okNoEnvelope"}) =>
     op.res = "raised"

\* C13: listSecrets of a path without children returns the empty sequence,
\* whichever way the server says that there are none.
C13_EmptyListNoError ==
  (op.pc = "done" /\ op.name = "listSecrets"
     /\ Children(kv, Normalize(op.path)) = <<>>
     /\ op.http \notin Faults \cup {"okNoEnvelope"}) =>
     (op.res = "returned" /\ op.vt = "names" /\ op.val = << <<>> >>)

\* A payload the type and JSON both admit: strings, finite numbers, booleans.
ValidPayload(data) == \A key \in DOMAIN data : data[key].k \in {"str", "num", "bool"}

\* C14: round trip. When setSecret(path, payload) has returned and
\* getSecret(path) is the next call, with its request answered by the store
\* itself, getSecret returns a payload equal to the one written.
C14_RoundTrip ==
  ( /\ op.pc = "done" /\ op.name = "getSecret"
    /\ op.before.name = "setSecret" /\ op.before.res = "returned"
    /\ op.before.path = op.path
    /\ ValidPayload(op.before.data[1])
    /\ op.http \notin Faults \cup {"okNoPayload", "okNoEnvelope"} ) =>
     (op.res = "returned" /\ op.vt = "payload" /\ op.val = op.before.data)

\* C14 witness: a payload with a number and a boolean, written to a path with
\* leading slashes, has been read back from that path.
C14_Witness ==
  /\ op.pc = "done" /\ op.name = "getSecret" /\ op.res = "returned"
  /\ op.path.lead = 2
  /\ op.before.name = "setSecret" /\ op.before.res = "returned"
  /\ op.before.path = op.path
  /\ op.val = <<[ttl |-> Num(3600), enabled |-> Bool(TRUE)]>>
  /\ op.val = op.before.data

\* C15: no record the client writes for a failing request, the interceptor's
\* or the method's, shows the bearer credential.
C15_NoCredentialLogged ==
  \A r \in logs : Get(env, "VAULT_TOKEN").s \notin r.shows

\* C16: healthCheck never raises and returns true exactly when the health GET
\* was answered with status 200, false on any other answer or none; the
\* /health/vault route answers 200 exactly then, and 503 otherwise.
C16_HealthOnlyOn200 ==
  (op.pc = "done" /\ op.name \in {"healthCheck", "healthRoute"}) =>
     /\ op.res = "returned"
     /\ op.name = "healthCheck" => op.val = <<op.http = "ok">>
     /\ op.name = "healthRoute" => op.val = <<IF op.http = "ok" THEN 200 ELSE 503>>

\* C16 witness: the server answered the health GET with a 2xx that is not
\* 200 and the route replied 503, after a health check that returned true.
C16_Witness ==
  /\ op.pc = "done" /\ op.name = "healthRoute" /\ op.http = "http204"
  /\ op.val = <<503>>
  /\ op.before.name = "healthCheck" /\ op.before.res = "returned"

(***************************************************************************)
(* Properties of the fallback and of getConfigValue.                       *)
(***************************************************************************)
\* The environment sets no value for the variable.
Absent(name) == Get(env, name) = Undef

\* C19: the fallback always succeeds and issues no request: a call whose
\* reads failed has issued its four reads and no more, and returns a config
\* in which every field whose variable is absent has its documented default:
\* sessionTimeout 1800, maxLoginAttempts 5, lockoutDuration 900, redisPort
\* 6379 (and the default secret and cache host).
C19_FallbackDefaults ==
  \A c \in Callers :
    (call[c].pc = "done" /\ call[c].src = "fallback") =>
       /\ Len(call[c].cfg) = 1
       /\ call[c].cfg = <<getFallbackConfig(env)>>
       /\ call[c].issued = Cardinality(ConfigPaths)
       /\ \A p \in ConfigPaths : call[c].reads[p].st = "none"
       /\ Absent("SESSION_TIMEOUT") => call[c].cfg[1].sessionTimeout = Num(1800)
       /\ Absent("MAX_LOGIN_ATTEMPTS") => call[c].cfg[1].maxLoginAttempts = Num(5)
       /\ Absent("LOCKOUT_DURATION") => call[c].cfg[1].lockoutDuration = Num(900)
       /\ Absent("REDIS_PORT") => call[c].cfg[1].redisPort = Num(6379)
       /\ Absent("JWT_SECRET") => call[c].cfg[1].jwtSecret = Str("fallback-secret-change-me")
       /\ Absent("REDIS_HOST") => call[c].cfg[1].redisHost = Str("redis")

\* C19 witness: no override is set, the server answered no read, and the call
\* returned the four documented defaults.
C19_Witness ==
  /\ \A name \in {"SESSION_TIMEOUT", "MAX_LOGIN_ATTEMPTS", "LOCKOUT_DURATION",
                  "REDIS_PORT", "JWT_SECRET", "REDIS_HOST"} : Absent(name)
  /\ \E c \in Callers :
       /\ call[c].pc = "done" /\ call[c].src = "fallback"
       /\ call[c].cfg[1].sessionTimeout = Num(1800)
       /\ call[c].cfg[1].maxLoginAttempts = Num(5)
       /\ call[c].cfg[1].lockoutDuration = Num(900)
       /\ call[c].cfg[1].redisPort = Num(6379)

\* C20: getConfigValue(key) is getConfig() and a projection. A call that
\* starts on a valid cache issues no request and returns the field key of the
\* stored config; a call that starts otherwise issues the four reads of
\* getConfig and no other; and when its getConfig returns, it returns the
\* field key of what that getConfig returned.
C20_ValueIsProjection ==
  [][\A c \in Callers :
       /\ (proj[c].pc # "waiting" /\ proj'[c] # proj[c]) =>
            /\ CacheValid =>
                 /\ call'[c].pc = "done" /\ call'[c].issued = 0
                 /\ proj'[c].pc = "done"
                 /\ proj'[c].val = <<config[1][proj'[c].key]>>
            /\ ~CacheValid =>
                 /\ call'[c].pc = "fetching"
                 /\ call'[c].issued = Cardinality(ConfigPaths)
                 /\ proj'[c].pc = "waiting"
       /\ (proj[c].pc = "waiting" /\ proj'[c] # proj[c]) =>
            /\ Returns(c)
            /\ proj'[c].pc = "done" /\ proj'[c].key = proj[c].key
            /\ proj'[c].val = <<call'[c].cfg[1][proj[c].key]>>
       /\ proj[c].pc = "waiting" => call[c].pc = "fetching"]_vars

\* C20 witness: a getConfigValue('redisPort') was served from the cache the
\* preload filled.
C20_Witness ==
  /\ proj["svc"].pc = "done" /\ proj["svc"].key = "redisPort"
  /\ call["svc"].src = "cache" /\ call["svc"].issued = 0
  /\ call[Boot].src = "live"
  /\ proj["svc"].val = <<call[Boot].cfg[1].redisPort>>

(***************************************************************************)
(* Properties of the singleton.                                            *)
(***************************************************************************)
\* C21: getVaultClient fails exactly when no VaultClient has been created by
\* initializeVault so far, and otherwise returns the instance the most recent
\* initializeVault created.
C21_LatestInstance ==
  [][(op'.name = "getVaultClient" /\ op' # op) =>
       /\ op'.res = "raised" <=> made = 0
       /\ op'.res = "returned" => op'.val = <<made>>]_vars

\* C21 witness: after a third initializeVault, getVaultClient returned the
\* third instance.
C21_Witness ==
  /\ op.name = "getVaultClient" /\ op.res = "returned"
  /\ op.before.name = "initializeVault"
  /\ made = 3 /\ op.val = <<3>>

(***************************************************************************)
(* Properties of overlapping calls of the config manager.                  *)
(***************************************************************************)
\* The payload caller c's fetch got for path p: the read already answered, or
\* the one being answered in this step.
OwnPayload(c, p) ==
  PayloadOf(p, IF call[c].reads[p].st = "ok" THEN call[c].reads[p].val ELSE server[p])

\* C22: once updateSecret has returned successfully, a getConfig call that
\* starts afterwards is not served data read before that write: while that
\* updateSecret is the latest write, a cache hit returns the JWT secret the
\* server holds.
C22_NoStaleAfterInvalidation ==
  [][\A c \in Callers :
       ( /\ wr.pc = "done" /\ wr.kind = "updateSecret" /\ wr.res = "ok"
         /\ Started(c) /\ call'[c].src = "cache" ) =>
          call'[c].cfg[1].jwtSecret =
            Get(PayloadOf("jwt/config", server["jwt/config"]), "secret")]_vars

\* C23: no single flight. A call that starts on a miss while another call is
\* fetching issues four reads of its own and leaves the other call's reads as
\* they are, and a call that returns a live config returns the composition of
\* the payloads its own four reads got.
C23_NoSingleFlight ==
  [][\A c \in Callers :
       /\ ( /\ Started(c) /\ ~CacheValid
            /\ \E d \in Callers \ {c} : call[d].pc = "fetching" ) =>
             /\ call'[c].pc = "fetching"
             /\ call'[c].issued = Cardinality(ConfigPaths)
             /\ \A p \in ConfigPaths : call'[c].reads[p].st = "pending"
             /\ \A d \in Callers \ {c} : call'[d] = call[d]
       /\ (Returns(c) /\ call'[c].src = "live") =>
             call'[c].cfg =
               <<ComposeConfig(OwnPayload(c, "jwt/config"),
                               OwnPayload(c, "auth-service/config"),
                               OwnPayload(c, "auth-service/oauth"),
                               OwnPayload(c, "redis/config"))>>]_vars

\* C23 witness: two fetches are in flight at once, all reads of one still
\* pending, and the other has got a JWT secret the server no longer holds.
C23_Witness ==
  \E c, d \in Callers :
    /\ c # d
    /\ call[c].pc = "fetching" /\ call[c].issued = 4
    /\ call[d].pc = "fetching" /\ call[d].issued = 4
    /\ \A p \in ConfigPaths : call[c].reads[p].st = "pending"
    /\ call[d].reads["jwt/config"].st = "ok"
    /\ call[d].reads["jwt/config"].val # server["jwt/config"]

\* What the claim lets a numeric field be: the number under the key when the
\* key holds one, the default otherwise.
NumericField(field, x, d) ==
  IF ToNumber(x).k = "num" THEN field = ToNumber(x) ELSE field = Num(d)

\* C27: in a live config each numeric field is the numeric value under its
\* key when the key holds one, and the default (1800, 5, 900, 6379) when the
\* key is absent or not numeric.
C27_NumericFields ==
  [][\A c \in Callers :
       (Returns(c) /\ call'[c].src = "live") =>
          LET auth == OwnPayload(c, "auth-service/config")
              redis == OwnPayload(c, "redis/config")
              cfg == call'[c].cfg[1]
          IN /\ NumericField(cfg.sessionTimeout, Get(auth, "session_timeout"), 1800)
             /\ NumericField(cfg.maxLoginAttempts, Get(auth, "max_login_attempts"), 5)
             /\ NumericField(cfg.lockoutDuration, Get(auth, "lockout_duration"), 900)
             /\ NumericField(cfg.redisPort, Get(redis, "port"), 6379)]_vars

\* C30: a failed updateSecret raises and leaves the server, the stored config
\* and its timestamp as they were, so an entry that was valid stays valid and
\* the next call is served from it.
C30_FailedUpdateKeepsCache ==
  [][/\ (wr.pc = "inflight" /\ wr.kind = "updateSecret" /\ wr'.pc = "done"
           /\ wr'.res # "ok") =>
          /\ wr'.res = "raised"
          /\ config' = config
          /\ configCacheTime' = configCacheTime
          /\ server' = server
          /\ CacheValid => CacheValid'
     /\ \A c \in Callers :
          ( /\ wr.pc = "done" /\ wr.kind = "updateSecret" /\ wr.res = "raised"
            /\ CacheValid /\ Started(c) ) =>
             (call'[c].src = "cache" /\ call'[c].cfg = config)]_vars

\* C30 witness: an updateSecret has failed and a call was served the entry
\* that is still stored and valid.
C30_Witness ==
  /\ wr.pc = "done" /\ wr.kind = "updateSecret" /\ wr.res = "raised"
  /\ CacheValid
  /\ \E c \in Callers : call[c].pc = "done" /\ call[c].src = "cache"
                        /\ call[c].cfg = config

\* C24: when two fetches overlap and both succeed, the fetch that started
\* earlier does not overwrite what the fetch that started later has stored.
C24_LaterStartWins ==
  [][\A c, d \in Callers :
       ( /\ c # d
         /\ Returns(c) /\ call'[c].src = "live"
         /\ call[d].pc = "done" /\ call[d].src = "live"
         /\ call[d].startedAt > call[c].startedAt
         /\ config = call[d].cfg
         /\ \A p \in ConfigPaths : configFrom[p] = d ) =>
          UNCHANGED <<config, configFrom>>]_vars

(***************************************************************************)
(* Properties of getSecrets under any order of completion.                 *)
(***************************************************************************)
\* No path occurs twice in the array.
Distinct(paths) ==
  \A i, j \in 1..Len(paths) : paths[i] = paths[j] => i = j

\* The mapping the reads' outcomes give when they complete in array order:
\* under each path, what the last read of that path in the array left.
ArrayOrderResult ==
  [p \in {batch.paths[i] : i \in 1..Len(batch.paths)} |->
     BatchValue(CHOOSE i \in 1..Len(batch.paths) :
                  /\ batch.paths[i] = p
                  /\ \A j \in 1..Len(batch.paths) : batch.paths[j] = p => j <= i)]

\* C25 as stated: for every array, the mapping getSecrets returns is the one
\* its reads' outcomes give in array order, whatever order they completed in.
C25_AnyArrayOrderIndependent ==
  batch.pc = "done" => batch.results = ArrayOrderResult

\* C25 amended: getSecrets returns only once every read has settled; a read
\* that settles, failing or not, leaves every other read and the entry of
\* every other path as they were; and when the paths are pairwise distinct
\* the mapping returned is determined by the reads' outcomes, whatever order
\* they completed in.
C25_DistinctOrderIndependent ==
  [][/\ batch'.pc = "done" =>
          \A i \in 1..Len(batch'.paths) : batch'.out[i] # "pending"
     /\ \A i \in 1..Len(batch.paths) :
          (batch.out[i] = "pending" /\ batch'.out[i] # "pending") =>
             /\ \A j \in 1..Len(batch.paths) \ {i} : batch'.out[j] = batch.out[j]
             /\ \A q \in DOMAIN batch.results \ {batch.paths[i]} :
                  q \in DOMAIN batch'.results /\ batch'.results[q] = batch.results[q]
     /\ (batch'.pc = "done" /\ Distinct(batch'.paths)) =>
          batch'.results = ArrayOrderResult']_vars

\* C25 witness: three distinct paths, the first read failed, the second
\* succeeded, and getSecrets has returned.
C25_Witness ==
  /\ batch.pc = "done" /\ Len(batch.paths) = 3 /\ Distinct(batch.paths)
  /\ batch.out[1] = "error" /\ batch.out[2] = "ok"
  /\ batch.results[batch.paths[1]] = "empty"
  /\ batch.results[batch.paths[2]] = server[batch.paths[2]]

(***************************************************************************)
(* Termination.                                                            *)
(***************************************************************************)
\* C26: getConfig does not hang: as long as pending reads settle, a call that
\* is fetching eventually returns a configuration, whatever the reads'
\* outcomes, all of them failing included.
C26_GetConfigReturns ==
  \A c \in Callers :
    (call[c].pc = "fetching") ~> (call[c].pc = "done" /\ Len(call[c].cfg) = 1)

\* C26 witness: both callers' fetches have returned, the preload with the
\* fallback after a failed read and the service's with the live config.
C26_Witness ==
  /\ reg = "completed"
  /\ call[Boot].pc = "done" /\ call[Boot].src = "fallback" /\ call[Boot].issued = 4
  /\ call["svc"].pc = "done" /\ call["svc"].src = "live" /\ call["svc"].issued = 4

(***************************************************************************)
(* Requests per call, timers per client.                                   *)
(***************************************************************************)
\* C28: the client never retries: a call of getSecret, setSecret,
\* deleteSecret, listSecrets, renewToken, getTokenInfo or healthCheck has sent
\* exactly one HTTP request while it is pending and when it has ended, whether
\* the request succeeded or failed.
C28_OneRequestPerCall ==
  (op.pc \in {"inflight", "done"} /\ op.name \in AccessorNames \cup {"healthCheck"}) =>
     op.sent = 1

\* C28 witness: a healthCheck whose request failed has ended after one
\* request, following a getSecret that raised.
C28_Witness ==
  /\ op.pc = "done" /\ op.name = "healthCheck" /\ Failed(op.http)
  /\ op.sent = 1
  /\ op.before.name = "getSecret" /\ op.before.res = "raised"

\* C29: at most one renewal timer is active for a given client instance,
\* whatever constructions and setupTokenAutoRenewal calls have occurred.
C29_SingleRenewalTask ==
  \A i, j \in 1..Len(timers) : timers[i].client = timers[j].client => i = j

(***************************************************************************)
(* The cache entry and the fields of a returned configuration.             *)
(***************************************************************************)
\* C31: between operation steps the stored config is absent exactly when the
\* cache timestamp is 0: the two are set together and cleared together.
C31_EntryAndStampTogether ==
  (config = <<>>) <=> (configCacheTime = 0)

\* C31 witness: the entry is stored and stamped again after a successful
\* updateSecret cleared both.
C31_Witness ==
  /\ wr.pc = "done" /\ wr.kind = "updateSecret" /\ wr.res = "ok"
  /\ config # <<>> /\ configCacheTime # 0
  /\ \E c \in Callers : call[c].pc = "done" /\ call[c].src = "live"

\* C32: every configuration getConfig has returned, live or fallback, has a
\* defined value for each of its ten fields.
C32_AllFieldsDefined ==
  \A c \in Callers :
    (call[c].pc = "done" /\ Len(call[c].cfg) = 1) =>
       \A key \in ConfigKeys : call[c].cfg[1][key].k # "undef"

(***************************************************************************)
(* The layout the accessor requests address.                               *)
(***************************************************************************)
\* C33: every request of getSecret and setSecret addresses secret/data/<p>,
\* every request of deleteSecret and listSecrets secret/metadata/<p>, where
\* <p> never begins with a slash and the same path given with one more
\* leading slash addresses the same location.
C33_DocumentedLayout ==
  (/\ op.pc \in {"inflight", "done"}
   /\ op.name \in {"getSecret", "setSecret", "deleteSecret", "listSecrets"}) =>
     LET target == RequestTarget(op.name, op.path)
     IN /\ target.area = IF op.name \in {"getSecret", "setSecret"}
                           THEN "secret/data" ELSE "secret/metadata"
        /\ target.p.lead = 0
        /\ target = RequestTarget(op.name, [op.path EXCEPT !.lead = @ + 1])

(***************************************************************************)
(* Properties of the lightweight helper.                                   *)
(***************************************************************************)
\* C34: getJWTSecret never raises and always returns a string, chosen by
\* precedence: the value the server holds when the read succeeds and holds
\* one, otherwise JWT_SECRET, otherwise 'default_secret_key'; vaultRequest
\* never raises and returns null on a response that is not ok and on a
\* network failure.
C34_SecretByPrecedence ==
  (jwt.pc = "done" /\ jwt.name = "getJWTSecret") =>
     LET held == IF jwt.http = "ok" THEN Get(jwt.stored[1], "value") ELSE Undef
         fromEnv == Get(env, "JWT_SECRET")
     IN /\ jwt.res = "returned"
        /\ jwt.val.k = "str"
        /\ jwt.val = IF Truthy(held) THEN held
                     ELSE IF Truthy(fromEnv) THEN fromEnv
                     ELSE Str("default_secret_key")
        /\ jwt.got # "raised"
        /\ Failed(jwt.http) => jwt.got = "null"

\* C35: with a server that reflects writes, a getJWTSecret that follows a
\* saveJWTSecret(s) that returned true returns s, for every string s.
C35_SaveThenGet ==
  (/\ jwt.pc = "done" /\ jwt.name = "getJWTSecret" /\ jwt.http = "ok"
   /\ jwt.before.name = "saveJWTSecret" /\ jwt.before.val = Bool(TRUE)) =>
     jwt.val = jwt.before.arg

(***************************************************************************)
(* Properties of the setup script's readiness wait.                        *)
(***************************************************************************)
\* C36: the wait proceeds to initialization only after a poll that succeeded,
\* a poll that fails is followed by a sleep and another poll, and the script
\* exits with failure only after 30 unsuccessful polls, saying that Vault
\* failed to start within expected time.
C36_ExitOnlyAfterThirtyPolls ==
  /\ setup.pc = "initializing" => setup.said = "Vault is ready!"
  /\ setup.pc = "exited" =>
       /\ setup.polls = max_attempts
       /\ setup.said = "Vault failed to start within expected time"

====
